---------------------------- MODULE Spec2Model ----------------------------
(***************************************************************************)
(* Model of the sector-analysis updater (src/sector_analysis.py) and of    *)
(* the publisher's read of the sheet (src/wordpress_publisher.py).          *)
(*                                                                         *)
(* Conventions.                                                            *)
(*  - A Python str is a sequence of code points; str comparison is the     *)
(*    lexicographic comparison of those sequences (StrLess).               *)
(*  - A float is a record [nan, inf, num, den]: NaN, +inf, or the exact    *)
(*    rational num/den (den > 0).  Division follows IEEE-754: x/0 = inf    *)
(*    for x > 0 and 0/0 = NaN; nothing raises.                             *)
(*  - A trading day is its day number since 1970-01-01; every day of the   *)
(*    modelled span is a trading day.                                      *)
(*  - Of the twelve sheet columns the model carries A (code), B (name),    *)
(*    C (date), D (close), I (RSI) and L (computed_at) by value.  The      *)
(*    columns E-H, J, K are carried in the data frame by definedness only  *)
(*    (whether the rolling window that feeds them is full), which is all   *)
(*    that dropna() looks at.                                              *)
(*  - The sheet's primitives acell/clear/update/insert_rows/get_all_records*)
(*    are atomic, and the three write primitives are total.                *)
(***************************************************************************)
EXTENDS Integers, Sequences, FiniteSets, TLC

(***************************************************************************)
(* Bounds of the model.                                                    *)
(***************************************************************************)
NumCodes == 2
MaxRuns == 2
MaxDays == 1
MaxRunLen == 76
MaxTaskLen == 326

(***************************************************************************)
(* Program constants.                                                      *)
(***************************************************************************)
SHORT_WINDOW == 5
MID_WINDOW == 25
LONG_WINDOW == 75
RSI_WINDOW == 14
BB_WINDOW == 20
VOL_WINDOW == 5
TAIL_ROWS == 250
MAX_WORKERS == 5
INSERT_ROW == 2

SECTOR_ETFS ==
  << [code |-> <<49, 54, 49, 55>>, name |-> <<39135, 21697>>],
     [code |-> <<49, 54, 49, 56>>, name |-> <<12456, 12493, 12523, 12462, 12540, 12539, 36039, 28304>>],
     [code |-> <<49, 54, 49, 57>>, name |-> <<24314, 35373, 12539, 36039, 26448>>],
     [code |-> <<49, 54, 50, 48>>, name |-> <<32032, 26448, 12539, 21270, 23398>>],
     [code |-> <<49, 54, 50, 49>>, name |-> <<21307, 34220, 21697>>],
     [code |-> <<49, 54, 50, 50>>, name |-> <<33258, 21205, 36554, 12539, 36664, 36865, 27231>>],
     [code |-> <<49, 54, 50, 51>>, name |-> <<37444, 37628, 12539, 38750, 37444>>],
     [code |-> <<49, 54, 50, 52>>, name |-> <<27231, 26800>>],
     [code |-> <<49, 54, 50, 53>>, name |-> <<38651, 27231, 12539, 31934, 23494>>],
     [code |-> <<49, 54, 50, 54>>, name |-> <<24773, 22577, 36890, 20449, 12539, 12469, 12540, 12499, 12473>>],
     [code |-> <<49, 54, 50, 55>>, name |-> <<38651, 21147, 12539, 12460, 12473>>],
     [code |-> <<49, 54, 50, 56>>, name |-> <<36939, 36664, 12539, 29289, 27969>>],
     [code |-> <<49, 54, 50, 57>>, name |-> <<21830, 31038, 12539, 21368, 22770>>],
     [code |-> <<49, 54, 51, 48>>, name |-> <<23567, 22770>>],
     [code |-> <<49, 54, 51, 49>>, name |-> <<37504, 34892>>],
     [code |-> <<49, 54, 51, 50>>, name |-> <<37329, 34701, 40, 38500, 12367, 37504, 34892, 41>>],
     [code |-> <<49, 54, 51, 51>>, name |-> <<19981, 21205, 29987>>] >>

\* The instruments of a run: the first NumCodes entries of SECTOR_ETFS, in
\* the dict's (insertion) order.
Codes == 1..NumCodes

\* headers, columns A, B, C, D, I, L.
headers ==
  [code |-> <<12467, 12540, 12489>>,
   name |-> <<12475, 12463, 12479, 12540, 21517>>,
   date |-> <<26085, 20184>>,
   close |-> <<29694, 22312, 20516>>,
   rsi |-> <<82, 83, 73>>,
   computed_at |-> <<26356, 26032, 26085, 26178>>]

(***************************************************************************)
(* Strings, dates and the clock.                                           *)
(***************************************************************************)
Min(a, b) == IF a < b THEN a ELSE b

Max(a, b) == IF a > b THEN a ELSE b

Digit(n) == 48 + n

Pad2(n) == << Digit((n \div 10) % 10), Digit(n % 10) >>

Pad4(n) == << Digit((n \div 1000) % 10), Digit((n \div 100) % 10),
              Digit((n \div 10) % 10), Digit(n % 10) >>

\* Python's str "<": lexicographic by code point, a proper prefix is smaller.
RECURSIVE StrLess(_, _)
StrLess(a, b) ==
  IF b = << >> THEN FALSE
  ELSE IF a = << >> THEN TRUE
  ELSE IF Head(a) # Head(b) THEN Head(a) < Head(b)
  ELSE StrLess(Tail(a), Tail(b))

\* The calendar date <<year, month, day>> of a day number (days since
\* 1970-01-01, proleptic Gregorian calendar).
CivilFromDays(z0) ==
  LET z == z0 + 719468
      era == z \div 146097
      doe == z - era * 146097
      yoe == (doe - doe \div 1460 + doe \div 36524 - doe \div 146096) \div 365
      doy == doe - (365 * yoe + yoe \div 4 - yoe \div 100)
      mp == (5 * doy + 2) \div 153
      d == doy - (153 * mp + 2) \div 5 + 1
      m == IF mp < 10 THEN mp + 3 ELSE mp - 9
      y == yoe + era * 400 + (IF m <= 2 THEN 1 ELSE 0)
  IN << y, m, d >>

\* date_idx.strftime('%Y-%m-%d')
DateStr(day) ==
  LET c == CivilFromDays(day)
  IN Pad4(c[1]) \o << 45 >> \o Pad2(c[2]) \o << 45 >> \o Pad2(c[3])

\* datetime.datetime.now().strftime('%Y-%m-%d %H:%M'); the clock counts the
\* minutes since 1970-01-01 00:00.
NowStr(minutes) ==
  DateStr(minutes \div 1440) \o << 32 >> \o Pad2((minutes % 1440) \div 60)
    \o << 58 >> \o Pad2(minutes % 60)

\* The calendar date written in a 'YYYY-MM-DD' string.
ParseDate(s) ==
  << (s[1] - 48) * 1000 + (s[2] - 48) * 100 + (s[3] - 48) * 10 + (s[4] - 48),
     (s[6] - 48) * 10 + (s[7] - 48),
     (s[9] - 48) * 10 + (s[10] - 48) >>

\* The number written in a string of decimal digits.
RECURSIVE ParseInt(_)
ParseInt(s) ==
  IF s = << >> THEN 0
  ELSE ParseInt(SubSeq(s, 1, Len(s) - 1)) * 10 + (s[Len(s)] - 48)

\* The first day and minute of the modelled span: 2024-10-01 (2024-01-01 is
\* day 19723), 15:59.
Day0 == 19723 + 274
Clock0 == Day0 * 1440 + 959

(***************************************************************************)
(* Floats.                                                                 *)
(***************************************************************************)
NaN == [nan |-> TRUE, inf |-> FALSE, num |-> 0, den |-> 1]

Inf == [nan |-> FALSE, inf |-> TRUE, num |-> 0, den |-> 1]

Fin(n, d) == [nan |-> FALSE, inf |-> FALSE, num |-> n, den |-> d]

\* a / b for non-negative floats a, b.
FDiv(a, b) ==
  IF a.nan \/ b.nan THEN NaN
  ELSE IF a.inf THEN (IF b.inf THEN NaN ELSE Inf)
  ELSE IF b.inf THEN Fin(0, 1)
  ELSE IF b.num = 0 THEN (IF a.num = 0 THEN NaN ELSE Inf)
  ELSE Fin(a.num * b.den, a.den * b.num)

\* round(x, 1) of a finite non-negative float, in tenths; ties go to even.
Round1(x) ==
  LET q == (10 * x.num) \div x.den
      r == (10 * x.num) % x.den
  IN IF 2 * r > x.den THEN q + 1
     ELSE IF 2 * r < x.den THEN q
     ELSE IF q % 2 = 0 THEN q ELSE q + 1


(***************************************************************************)
(* The market-data feed: stock.history(period="2y").                       *)
(***************************************************************************)
Shapes == {"zigzag", "up", "flat", "flat_tail", "flat_mid"}

ZigZag(d) == IF d % 3 = 0 THEN 100 ELSE IF d % 3 = 1 THEN 103 ELSE 101

\* The close of a price path on a day: always positive.
Price(shape, d) ==
  CASE shape = "zigzag" -> ZigZag(d)
    [] shape = "up" -> 1000 + d - Day0
    [] shape = "flat" -> 100
    [] shape = "flat_tail" -> IF d >= Day0 - 16 THEN 100 ELSE ZigZag(d)
    [] shape = "flat_mid" ->
         IF d >= Day0 - 40 /\ d <= Day0 - 20 THEN 100 ELSE ZigZag(d)

Volume(d) == 1000 + 100 * (d % 4)

\* The n daily observations of a price path up to and including day last,
\* oldest first.
History(shape, n, last) ==
  [i \in 1..n |-> [day |-> last - n + i,
                   close |-> Price(shape, last - n + i),
                   volume |-> Volume(last - n + i)]]

\* What the feed does on a call: it raises, or it answers with the last n
\* observations of a price path.
FeedError == [kind |-> "error", shape |-> "flat", n |-> 0, last |-> Day0]

FeedOk(shape, n, last) == [kind |-> "ok", shape |-> shape, n |-> n, last |-> last]

\* hist = stock.history(period="2y"), when the feed answers.
Hist(f) == History(f.shape, f.n, f.last)

\* The lengths of the series a single call is tried on, and its answers.
TaskLens == {0, 1, 14, 74, 75, 76, 90, 323, 324, MaxTaskLen}

TaskAnswers == {FeedOk(s, n, Day0) : s \in Shapes, n \in TaskLens}

TaskFeeds == {FeedError} \cup TaskAnswers

\* The price path of each instrument of a run, the lengths of the series a
\* run is tried on, and the answers of its feed.
Market(c) ==
  CASE c % 3 = 1 -> "zigzag"
    [] c % 3 = 2 -> "up"
    [] c % 3 = 0 -> "flat_tail"

RunLens == {0, LONG_WINDOW - 1, MaxRunLen}

RunAnswers ==
  {FeedOk(Market(c), n, Day0 + d) : c \in Codes, n \in RunLens, d \in 0..MaxDays}

(***************************************************************************)
(* calculate_technical_indicators                                          *)
(***************************************************************************)
\* Whether Series.rolling(window=w) has a value at the i-th row.
Rolling(i, w) == IF i < w THEN "NaN" ELSE "num"

\* The running totals base + x[lo], base + x[lo] + x[lo + 1], ... up to hi.
RECURSIVE RunningTotals(_, _, _, _)
RunningTotals(x, lo, hi, base) ==
  IF lo > hi THEN << >>
  ELSE IF lo = hi THEN << base + x[lo] >>
  ELSE LET mid == (lo + hi) \div 2
           left == RunningTotals(x, lo, mid, base)
       IN left \o RunningTotals(x, mid + 1, hi, left[Len(left)])

\* The running totals of the first n entries of an integer column.
CumSum(x, n) == RunningTotals(x, 1, n, 0)

\* x.rolling(window=w).mean() at row i, from the running totals of x: the
\* sum of the last w entries over w, NaN while fewer than w rows exist.
RollingMean(cum, i, w) ==
  IF i < w THEN NaN
  ELSE Fin(cum[i] - (IF i = w THEN 0 ELSE cum[i - w]), w)

\* 100 - (100 / (1 + rs))
RsiOfRs(rs) ==
  IF rs.nan THEN NaN
  ELSE IF rs.inf THEN Fin(100, 1)
  ELSE Fin(100 * rs.num, rs.num + rs.den)

calculate_technical_indicators(hist) ==
  LET n == Len(hist)
      \* delta, without its first entry, which is NaN and compares False
      delta == SubSeq([i \in 1..n |-> IF i = 1 THEN 0
                                      ELSE hist[i].close - hist[i - 1].close], 1, n)
      \* delta.where(delta > 0, 0) and -delta.where(delta < 0, 0)
      up == SubSeq([i \in 1..n |-> IF i > 1 /\ delta[i] > 0 THEN delta[i] ELSE 0], 1, n)
      down == SubSeq([i \in 1..n |-> IF i > 1 /\ delta[i] < 0 THEN 0 - delta[i] ELSE 0], 1, n)
      cum_up == CumSum(up, n)
      cum_down == CumSum(down, n)
  IN [i \in 1..n |->
       LET gain == RollingMean(cum_up, i, RSI_WINDOW)
           loss == RollingMean(cum_down, i, RSI_WINDOW)
           rs == FDiv(gain, loss)
       IN [day |-> hist[i].day,
           close |-> Fin(hist[i].close, 1),
           ma5 |-> Rolling(i, SHORT_WINDOW),
           ma25 |-> Rolling(i, MID_WINDOW),
           ma75 |-> Rolling(i, LONG_WINDOW),
           diff_short |-> Rolling(i, SHORT_WINDOW),
           diff_mid |-> Rolling(i, MID_WINDOW),
           diff_long |-> Rolling(i, LONG_WINDOW),
           gain |-> gain,
           loss |-> loss,
           rsi |-> RsiOfRs(rs),
           bb_std |-> Rolling(i, BB_WINDOW),
           bb_pct_b |-> Rolling(i, BB_WINDOW),
           vol_ma5 |-> Rolling(i, VOL_WINDOW),
           vol_ratio |-> Rolling(i, VOL_WINDOW),
           change_pct |-> IF i = 1 THEN "NaN" ELSE "num"]]

(***************************************************************************)
(* get_sector_data                                                         *)
(***************************************************************************)
\* Whether a row of the data frame holds a null in any column.
HasNull(r) ==
  \/ r.ma5 = "NaN" \/ r.ma25 = "NaN" \/ r.ma75 = "NaN"
  \/ r.diff_short = "NaN" \/ r.diff_mid = "NaN" \/ r.diff_long = "NaN"
  \/ r.rsi.nan
  \/ r.bb_std = "NaN" \/ r.bb_pct_b = "NaN"
  \/ r.vol_ma5 = "NaN" \/ r.vol_ratio = "NaN"
  \/ r.change_pct = "NaN"

dropna(df) == SelectSeq(df, LAMBDA r : ~HasNull(r))

\* A slip of tail: the oldest k rows instead of the newest.
tail_oldest(df, k) == SubSeq(df, 1, Min(k, Len(df)))

tail(df, k) == SubSeq(df, Max(1, Len(df) - k + 1), Len(df))

make_row(code, name, r, clock) ==
  [code |-> code,
   name |-> name,
   date |-> DateStr(r.day),
   close |-> Round1(r.close),
   rsi |-> Round1(r.rsi),
   computed_at |-> NowStr(clock)]

\* df = calculate_technical_indicators(hist); df = df.dropna().tail(250)
Frame(f) == tail(dropna(calculate_technical_indicators(Hist(f))), TAIL_ROWS)

\* Frame, worked out once for every answer the feed may give in a run.
RECURSIVE Tabulate(_)
Tabulate(S) ==
  IF S = {} THEN << >>
  ELSE LET f == CHOOSE x \in S : TRUE
       IN (f :> Frame(f)) @@ Tabulate(S \ {f})

Frames == Tabulate(RunAnswers)

FrameOf(f) == IF f \in DOMAIN Frames THEN Frames[f] ELSE Frame(f)

\* What the body of the try block does with a feed that answered; nows[j]
\* is the clock at the j-th call of make_row.
try_body(code, name, f, is_initial_run, nows) ==
  IF f.n = 0 THEN << >>
  ELSE LET df == FrameOf(f)
           n == Len(df)
       IN IF is_initial_run
          THEN [j \in 1..n |-> make_row(code, name, df[n + 1 - j], nows[j])]
          ELSE IF n > 0 THEN << make_row(code, name, df[n], nows[1]) >>
          ELSE << >>

\* A slip of get_sector_data: the feed's exception is not caught.
get_sector_data_uncaught(code, name, f, is_initial_run, nows) ==
  IF f.kind = "error"
  THEN [raised |-> TRUE, rows |-> << >>]
  ELSE [raised |-> FALSE,
        rows |-> try_body(code, name, f, is_initial_run, nows)]

\* The result of the task: raised tells whether an exception leaves it.
get_sector_data(code, name, f, is_initial_run, nows) ==
  IF f.kind = "error"
  THEN [raised |-> FALSE, rows |-> << >>]
  ELSE [raised |-> FALSE,
        rows |-> try_body(code, name, f, is_initial_run, nows)]

\* The clock readings of one task when the minute rolls over after t calls
\* of make_row (t = TAIL_ROWS: it does not roll over during the task).
Nows(clock, t) == [j \in 1..TAIL_ROWS |-> IF j <= t THEN clock ELSE clock + 1]


(***************************************************************************)
(* State.                                                                  *)
(***************************************************************************)
VARIABLES
  pc,              \* where update_sheet stands
  runs,            \* the number of runs started
  today,           \* the latest trading day the feed knows
  now,             \* the wall clock, in minutes
  table,           \* the worksheet: its rows, the header first
  a1_raised,       \* whether worksheet.acell('A1') raised
  is_initial_run,
  feed,            \* per instrument, what the feed answered in this run
  results,         \* per instrument, the result of its future
  finished,        \* the instruments whose task has completed
  collected,       \* the number of futures whose result was taken
  all_rows,
  calls,           \* the sink operations of this run, in order
  preTable,        \* the worksheet when the run started
  seen,            \* what the publisher read while the run was under way
  tk_pc,           \* a single call of get_sector_data: its position,
  tk_code,         \* its instrument,
  tk_feed,         \* what the feed answers,
  tk_mode,         \* its is_initial_run argument,
  tk_now,          \* the clock when it starts,
  tk_ret           \* and what it returns

runVars == << pc, runs, today, now, table, a1_raised, is_initial_run, feed,
              results, finished, collected, all_rows, calls, preTable, seen >>

taskVars == << tk_pc, tk_code, tk_feed, tk_mode, tk_now, tk_ret >>

vars == << pc, runs, today, now, table, a1_raised, is_initial_run, feed,
           results, finished, collected, all_rows, calls, preTable, seen,
           tk_pc, tk_code, tk_feed, tk_mode, tk_now, tk_ret >>

NoFeed == [kind |-> "pending", shape |-> "flat", n |-> 0, last |-> Day0]

NoResult == [raised |-> FALSE, rows |-> << >>]

\* The run before it has started: an empty worksheet.
InitRun ==
  /\ pc = "start"
  /\ runs = 1
  /\ today = Day0
  /\ now = Clock0
  /\ table = << >>
  /\ a1_raised = FALSE
  /\ is_initial_run = FALSE
  /\ feed = [c \in Codes |-> NoFeed]
  /\ results = [c \in Codes |-> NoResult]
  /\ finished = {}
  /\ collected = 0
  /\ all_rows = << >>
  /\ calls = << >>
  /\ preTable = << >>
  /\ seen = {}

InitTask ==
  /\ tk_pc = "call"
  /\ tk_code \in Codes
  /\ tk_feed \in TaskFeeds
  /\ tk_mode \in BOOLEAN
  /\ tk_now = Clock0
  /\ tk_ret = NoResult

NoTask ==
  /\ tk_pc = "none"
  /\ tk_code = 1
  /\ tk_feed = FeedError
  /\ tk_mode = FALSE
  /\ tk_now = Clock0
  /\ tk_ret = NoResult

(***************************************************************************)
(* A single call of get_sector_data.                                       *)
(***************************************************************************)
\* The minute may roll over before the first row, after any of the first
\* MaxTickRow rows, or not while the rows are rendered.
MaxTickRow == 2

TickPoints(k) == {t \in 0..k : t <= MaxTickRow \/ t = k}

TaskCall ==
  /\ tk_pc = "call"
  /\ LET e == SECTOR_ETFS[tk_code]
         quick == get_sector_data(e.code, e.name, tk_feed, tk_mode,
                                  Nows(tk_now, TAIL_ROWS))
         k == Len(quick.rows)
     IN \E t \in TickPoints(k) :
          /\ tk_ret' = IF t = k THEN quick
                       ELSE get_sector_data(e.code, e.name, tk_feed, tk_mode,
                                            Nows(tk_now, t))
          /\ tk_now' = IF t < k THEN tk_now + 1 ELSE tk_now
  /\ tk_pc' = "returned"
  /\ UNCHANGED << tk_code, tk_feed, tk_mode >>
  /\ UNCHANGED runVars

NextTask == TaskCall

\* A single call, on its own: no run is under way.
InitCall == InitTask /\ InitRun

SpecTask == InitCall /\ [][NextTask]_vars


(***************************************************************************)
(* The worksheet's primitives.                                             *)
(***************************************************************************)
\* worksheet.acell('A1').value: the first cell, or None (the empty string
\* here) when the sheet has no first row.
acell_A1(t) == IF t = << >> THEN << >> ELSE t[1].code

worksheet_clear(t) == << >>

\* worksheet.update(range_name='A1', values=values): the cells the values
\* cover are overwritten, the rows below them are left alone.
worksheet_update(t, values) ==
  [i \in 1..Max(Len(t), Len(values)) |->
     IF i <= Len(values) THEN values[i] ELSE t[i]]

\* A slip of insert_rows: the values are written over the rows at the
\* position instead of being inserted before them.
insert_rows_over(t, values, row) ==
  SubSeq(t, 1, row - 1) \o values \o SubSeq(t, row + Len(values), Len(t))

\* worksheet.insert_rows(values, row=row): the rows from position row on are
\* shifted down and the values take their place.
insert_rows(t, values, row) ==
  SubSeq(t, 1, row - 1) \o values \o SubSeq(t, row, Len(t))

\* worksheet.get_all_records(): the rows below the header, keyed by it.
get_all_records(t) == IF t = << >> THEN << >> ELSE Tail(t)

(***************************************************************************)
(* update_sheet                                                            *)
(***************************************************************************)
\* bool(s) of a str or None.
Bool(s) == s # << >>

\* A slip of ResolveMode: the negation is lost.
ResolveMode_negated(raised, val_a1) == IF raised THEN TRUE ELSE Bool(val_a1)

\* is_initial_run, from the outcome of reading A1.
ResolveMode(raised, val_a1) == IF raised THEN TRUE ELSE ~Bool(val_a1)

\* A slip of the sort key: the date alone.
SortKey_date_only(x) == << x.date, << >> >>

\* key=lambda x: (x[2], x[0])
SortKey(x) == << x.date, x.code >>

\* Python's "<" on the key tuples.
KeyLess(a, b) ==
  \/ StrLess(a[1], b[1])
  \/ a[1] = b[1] /\ StrLess(a[2], b[2])

\* list.sort(key=..., reverse=True) is stable: a row goes before the first
\* row with a smaller key, after the rows with an equal one.
RECURSIVE InsertDesc(_, _)
InsertDesc(sorted, x) ==
  IF sorted = << >> THEN << x >>
  ELSE IF KeyLess(SortKey(Head(sorted)), SortKey(x)) THEN << x >> \o sorted
  ELSE << Head(sorted) >> \o InsertDesc(Tail(sorted), x)

RECURSIVE sort(_)
sort(rows) ==
  IF rows = << >> THEN << >>
  ELSE InsertDesc(sort(SubSeq(rows, 1, Len(rows) - 1)), rows[Len(rows)])

\* What the feed may do for an instrument in a run.
RunFeeds(c) == {FeedError} \cup {FeedOk(Market(c), n, today) : n \in RunLens}

Call(op, values, row, changed) ==
  [op |-> op, values |-> values, row |-> row, changed |-> changed]

perRun == << a1_raised, is_initial_run, feed, results, finished, collected,
             all_rows >>

\* creds_json: the run returns when no credentials are found.
LoadCredentials ==
  /\ pc = "start"
  /\ \E found \in BOOLEAN : pc' = IF found THEN "url" ELSE "aborted"
  /\ UNCHANGED << runs, today, now, table, calls, preTable, seen >>
  /\ UNCHANGED perRun
  /\ UNCHANGED taskVars

\* sheet_url: the run returns when SHEET_URL is not set.
GetSheetUrl ==
  /\ pc = "url"
  /\ \E set \in BOOLEAN : pc' = IF set THEN "open" ELSE "aborted"
  /\ UNCHANGED << runs, today, now, table, calls, preTable, seen >>
  /\ UNCHANGED perRun
  /\ UNCHANGED taskVars

\* gc.open_by_url / wb.worksheet: the run returns when either raises.
OpenSheet ==
  /\ pc = "open"
  /\ \E opened \in BOOLEAN : pc' = IF opened THEN "check" ELSE "aborted"
  /\ UNCHANGED << runs, today, now, table, calls, preTable, seen >>
  /\ UNCHANGED perRun
  /\ UNCHANGED taskVars

\* The first-run check: A1 is read, or the read raises.
CheckA1 ==
  /\ pc = "check"
  /\ \E raised \in BOOLEAN :
       /\ a1_raised' = raised
       /\ is_initial_run' = ResolveMode(raised, acell_A1(table))
  /\ pc' = "fetch"
  /\ UNCHANGED << runs, today, now, table, calls, preTable, seen >>
  /\ UNCHANGED << feed, results, finished, collected, all_rows >>
  /\ UNCHANGED taskVars

\* One task of the pool runs to its end.  The pool starts the tasks in the
\* order of submission, MAX_WORKERS at a time.  The minute does not roll
\* over while a run renders its rows; SpecTask covers the roll-over.
TaskRun(c) ==
  /\ pc = "fetch"
  /\ ~(c \in finished)
  /\ c <= Cardinality(finished) + MAX_WORKERS
  /\ \E f \in RunFeeds(c) :
       LET e == SECTOR_ETFS[c]
       IN /\ feed' = [feed EXCEPT ![c] = f]
          /\ results' = [results EXCEPT ![c] =
               get_sector_data(e.code, e.name, f, is_initial_run,
                               Nows(now, TAIL_ROWS))]
  /\ finished' = finished \cup {c}
  /\ UNCHANGED << pc, runs, today, now, table, calls, preTable, seen >>
  /\ UNCHANGED << a1_raised, is_initial_run, collected, all_rows >>
  /\ UNCHANGED taskVars

\* res = future.result(), in the order of submission; an exception of the
\* task would leave update_sheet here.
Collect ==
  /\ pc = "fetch"
  /\ collected < NumCodes
  /\ (collected + 1) \in finished
  /\ LET res == results[collected + 1]
     IN IF res.raised
        THEN /\ pc' = "crashed"
             /\ UNCHANGED << collected, all_rows >>
        ELSE /\ collected' = collected + 1
             /\ all_rows' = IF res.rows # << >> THEN all_rows \o res.rows
                                                ELSE all_rows
             /\ pc' = pc
  /\ UNCHANGED << runs, today, now, table, calls, preTable, seen >>
  /\ UNCHANGED << a1_raised, is_initial_run, feed, results, finished >>
  /\ UNCHANGED taskVars

\* all_rows.sort(...), once every future has been collected.
SortRows ==
  /\ pc = "fetch"
  /\ collected = NumCodes
  /\ all_rows' = sort(all_rows)
  /\ pc' = "write"
  /\ UNCHANGED << runs, today, now, table, calls, preTable, seen >>
  /\ UNCHANGED << a1_raised, is_initial_run, feed, results, finished, collected >>
  /\ UNCHANGED taskVars

\* worksheet.clear()
WriteClear ==
  /\ pc = "write"
  /\ is_initial_run
  /\ table' = worksheet_clear(table)
  /\ calls' = Append(calls, Call("clear", << >>, 0, table' # table))
  /\ pc' = "cleared"
  /\ UNCHANGED << runs, today, now, preTable, seen >>
  /\ UNCHANGED perRun
  /\ UNCHANGED taskVars

\* worksheet.update(range_name='A1', values=[headers] + all_rows)
WriteUpdate ==
  /\ pc = "cleared"
  /\ LET values == << headers >> \o all_rows
     IN /\ table' = worksheet_update(table, values)
        /\ calls' = Append(calls, Call("update", values, 1, table' # table))
  /\ pc' = "done"
  /\ UNCHANGED << runs, today, now, preTable, seen >>
  /\ UNCHANGED perRun
  /\ UNCHANGED taskVars

\* worksheet.insert_rows(all_rows, row=2)
WriteInsert ==
  /\ pc = "write"
  /\ ~is_initial_run
  /\ all_rows # << >>
  /\ table' = insert_rows(table, all_rows, INSERT_ROW)
  /\ calls' = Append(calls, Call("insert_rows", all_rows, INSERT_ROW, table' # table))
  /\ pc' = "done"
  /\ UNCHANGED << runs, today, now, preTable, seen >>
  /\ UNCHANGED perRun
  /\ UNCHANGED taskVars

\* Nothing to append.
WriteNothing ==
  /\ pc = "write"
  /\ ~is_initial_run
  /\ all_rows = << >>
  /\ pc' = "done"
  /\ UNCHANGED << runs, today, now, table, calls, preTable, seen >>
  /\ UNCHANGED perRun
  /\ UNCHANGED taskVars

\* The publisher's get_sheet_data reads the worksheet while a run is under
\* way.  A read before the write stage returns what a read at its beginning
\* returns, so the reads are taken from there on.
PublisherRead ==
  /\ pc \in {"write", "cleared", "done"}
  /\ seen' = seen \cup {get_all_records(table)}
  /\ UNCHANGED << pc, runs, today, now, table, calls, preTable >>
  /\ UNCHANGED perRun
  /\ UNCHANGED taskVars

\* The next trading day closes, between two runs.
NextDay ==
  /\ pc = "start"
  /\ today < Day0 + MaxDays
  /\ today' = today + 1
  /\ now' = now + 1440
  /\ UNCHANGED << pc, runs, table, calls, preTable, seen >>
  /\ UNCHANGED perRun
  /\ UNCHANGED taskVars

\* The script is started again.
NewRun ==
  /\ pc \in {"done", "aborted"}
  /\ runs < MaxRuns
  /\ runs' = runs + 1
  /\ pc' = "start"
  /\ a1_raised' = FALSE
  /\ is_initial_run' = FALSE
  /\ feed' = [c \in Codes |-> NoFeed]
  /\ results' = [c \in Codes |-> NoResult]
  /\ finished' = {}
  /\ collected' = 0
  /\ all_rows' = << >>
  /\ calls' = << >>
  /\ preTable' = table
  /\ seen' = {}
  /\ UNCHANGED << today, now, table >>
  /\ UNCHANGED taskVars

Next ==
  \/ LoadCredentials
  \/ GetSheetUrl
  \/ OpenSheet
  \/ CheckA1
  \/ \E c \in Codes : TaskRun(c)
  \/ Collect
  \/ SortRows
  \/ WriteClear
  \/ WriteUpdate
  \/ WriteInsert
  \/ WriteNothing
  \/ PublisherRead
  \/ NextDay
  \/ NewRun

\* The runs, on their own.
Init == InitRun /\ NoTask

Spec == Init /\ [][Next]_vars

(***************************************************************************)
(* Properties of a single call (SpecTask).                                 *)
(***************************************************************************)
\* The rows of the data frame of the call's series that hold no null.
ValidRows ==
  LET df == calculate_technical_indicators(Hist(tk_feed))
  IN {i \in 1..Len(df) : ~HasNull(df[i])}

\* The k largest members of a set of numbers.
Largest(S, k) == {i \in S : Cardinality({j \in S : j > i}) < k}

\* C7: the call drops every row with a null derived field, then returns the
\* most recent min(250, valid) valid rows in full-history mode and the single
\* most recent valid row in latest-only mode; a series shorter than 75
\* observations yields no row.
C7_Trimming ==
  tk_pc = "returned" =>
    LET V == ValidRows
        k == IF tk_mode THEN Min(TAIL_ROWS, Cardinality(V))
                        ELSE Min(1, Cardinality(V))
        rows == tk_ret.rows
    IN /\ Len(rows) = k
       /\ {rows[j].date : j \in 1..Len(rows)}
            = {DateStr(Hist(tk_feed)[i].day) : i \in Largest(V, k)}
       /\ \A i \in 1..Len(Hist(tk_feed)) :
            (i < LONG_WINDOW \/ ~Hist(tk_feed)[i].day \in {Hist(tk_feed)[j].day : j \in V})
              => ~(DateStr(Hist(tk_feed)[i].day) \in {rows[j].date : j \in 1..Len(rows)})
       /\ Len(Hist(tk_feed)) < LONG_WINDOW => rows = << >>

\* C7's case: a full-history call on a series with more than 250 valid rows
\* returns 250 rows, and a latest-only call on the same kind of series one.
C7_Witness ==
  /\ tk_pc = "returned"
  /\ tk_mode
  /\ Cardinality(ValidRows) > TAIL_ROWS
  /\ Len(tk_ret.rows) = TAIL_ROWS

IsNumber(x, v) == ~x.nan /\ ~x.inf /\ x.num = v * x.den

\* C8: on every day whose 14-period window is full, a zero average loss with
\* a positive average gain gives RSI 100 and two zero averages give RSI 50;
\* in both cases the RSI is not null, so the null filter keeps the row.
C8_RsiDegenerate ==
  tk_pc = "returned" =>
    LET df == calculate_technical_indicators(Hist(tk_feed))
    IN \A i \in RSI_WINDOW..Len(df) :
         /\ (df[i].loss.num = 0 /\ df[i].gain.num > 0)
              => IsNumber(df[i].rsi, 100)
         /\ (df[i].loss.num = 0 /\ df[i].gain.num = 0)
              => /\ IsNumber(df[i].rsi, 50)
                 /\ (i >= LONG_WINDOW /\ i = Len(df))
                      => \E j \in 1..Len(tk_ret.rows) :
                           tk_ret.rows[j].date = DateStr(df[i].day)

\* C10: all rows one call returns carry the same computed_at.
C10_SameTimestamp ==
  tk_pc = "returned" =>
    \A i, j \in 1..Len(tk_ret.rows) :
      tk_ret.rows[i].computed_at = tk_ret.rows[j].computed_at


(***************************************************************************)
(* Properties of a run (Spec).                                             *)
(***************************************************************************)
WriteStage == {"write", "cleared", "done"}

A1Empty(t) == ~Bool(acell_A1(t))

Ops == [i \in 1..Len(calls) |-> calls[i].op]

RECURSIVE TotalRows(_)
TotalRows(n) == IF n = 0 THEN 0 ELSE TotalRows(n - 1) + Len(results[n].rows)

\* all_rows holds every row the tasks produced, and nothing else.
AllProduced ==
  /\ Len(all_rows) = TotalRows(NumCodes)
  /\ \A c \in Codes : \A j \in 1..Len(results[c].rows) :
       \E i \in 1..Len(all_rows) : all_rows[i] = results[c].rows[j]

\* At most one row per configured instrument, and no other row.
OneRowPerInstrument(rows) ==
  /\ \A c \in Codes :
       Cardinality({j \in 1..Len(rows) : rows[j].code = SECTOR_ETFS[c].code}) <= 1
  /\ \A j \in 1..Len(rows) : \E c \in Codes : rows[j].code = SECTOR_ETFS[c].code

BootstrapWrites ==
  /\ Ops = << "clear", "update" >>
  /\ calls[2].values = << headers >> \o all_rows
  /\ AllProduced

C2_HistoryUntouched ==
  /\ pc \in {"start", "url", "open", "check", "fetch", "write", "aborted"}
       => table = preTable
  /\ (pc = "done" /\ ~is_initial_run) =>
       /\ preTable # << >>
       /\ table = << preTable[1] >> \o all_rows \o Tail(preTable)
       /\ all_rows = << >> => table = preTable

\* C2's case: an incremental run has inserted rows above existing history.
C2_Witness ==
  /\ pc = "done"
  /\ ~is_initial_run
  /\ all_rows # << >>
  /\ Len(preTable) > 1
  /\ Len(table) > Len(preTable)

\* The calendar date and the instrument number a row shows.
RowDate(r) == ParseDate(r.date)

RowCode(r) == ParseInt(r.code)

DateLater(a, b) ==
  \/ a[1] > b[1]
  \/ a[1] = b[1] /\ a[2] > b[2]
  \/ a[1] = b[1] /\ a[2] = b[2] /\ a[3] > b[3]

\* Newest date first, within a date the larger instrument number first.
NonIncreasing(rows) ==
  \A i \in 1..(Len(rows) - 1) :
    \/ DateLater(RowDate(rows[i]), RowDate(rows[i + 1]))
    \/ /\ RowDate(rows[i]) = RowDate(rows[i + 1])
       /\ RowCode(rows[i]) >= RowCode(rows[i + 1])

\* The results of the tasks, put together in a given order of the tasks.
RECURSIVE Gathered(_, _)
Gathered(order, n) ==
  IF n = 0 THEN << >> ELSE Gathered(order, n - 1) \o results[order[n]].rows

\* The data rows a sink operation was handed.
Handed(call) == IF call.op = "update" THEN Tail(call.values) ELSE call.values

\* C3: the rows handed to the sink are the same whatever the order in which
\* the tasks' results are put together, and they are non-increasing by
\* (date, instrument), in both modes.
C3_DeterministicOrder ==
  \A i \in 1..Len(calls) :
    calls[i].op # "clear" =>
      /\ NonIncreasing(Handed(calls[i]))
      /\ \A order \in Permutations(Codes) :
           sort(Gathered(order, NumCodes)) = Handed(calls[i])

\* C3's case: rows of two instruments and two dates were handed to the sink.
C3_Witness ==
  /\ pc = "done"
  /\ Len(calls) = 2
  /\ \E i, j \in 1..Len(all_rows) :
       all_rows[i].date = all_rows[j].date /\ all_rows[i].code # all_rows[j].code
  /\ \E i, j \in 1..Len(all_rows) : all_rows[i].date # all_rows[j].date

\* Whether the feed's answer makes the task fail: it raises, it is empty, or
\* it is shorter than the longest window.
Failed(f) == f.kind = "error" \/ f.n < LONG_WINDOW

\* A row without its computed_at.
Core(r) == [code |-> r.code, name |-> r.name, date |-> r.date,
            close |-> r.close, rsi |-> r.rsi]

CoreOf(rows) == [j \in 1..Len(rows) |-> Core(rows[j])]

\* C4: a failed task returns an empty result without raising; the rows of
\* every other instrument are in the batch as its own feed alone determines
\* them; the write stage is reached only with every task finished and
\* collected, and the run is never left by an exception of a task.
C4_FaultIsolation ==
  /\ pc # "crashed"
  /\ \A c \in finished :
       /\ ~results[c].raised
       /\ Failed(feed[c]) => results[c].rows = << >>
  /\ pc \in WriteStage =>
       /\ finished = Codes
       /\ collected = NumCodes
       /\ \A c \in Codes :
            /\ SelectSeq(all_rows, LAMBDA r : r.code = SECTOR_ETFS[c].code)
                 = results[c].rows
            /\ ~Failed(feed[c]) =>
                 CoreOf(results[c].rows)
                   = CoreOf(try_body(SECTOR_ETFS[c].code, SECTOR_ETFS[c].name,
                                     feed[c], is_initial_run,
                                     Nows(now, TAIL_ROWS)))

\* C4's case: a run with a task whose feed raised and a task that produced
\* rows has written them.
C4_Witness ==
  /\ pc = "done"
  /\ \E c \in Codes : feed[c].kind = "error"
  /\ \E c \in Codes : results[c].rows # << >>
  /\ calls # << >>

\* C5: a failure of the configuration, of the credentials, of opening the
\* worksheet or of reading the first cell ends the run before any write: no
\* sink operation is attempted and the worksheet is unchanged.
C5_SinkFailureFatal ==
  (pc = "aborted" \/ a1_raised) => (calls = << >> /\ table = preTable)

\* C6: the worksheet never holds two data rows with the same instrument and
\* date.
C6_NoDuplicatePairs ==
  \A i, j \in 2..Len(table) :
    i # j => ~(table[i].code = table[j].code /\ table[i].date = table[j].date)

\* The number of sink operations of the run that changed the worksheet.
Mutations == Cardinality({i \in 1..Len(calls) : calls[i].changed})

\* C9: a run changes the worksheet by at most one sink operation, and what a
\* reader reads during the run is the worksheet of before the run or the
\* worksheet of after it.
C9_SingleWrite ==
  pc = "done" =>
    /\ Mutations <= 1
    /\ \A s \in seen :
         s = get_all_records(preTable) \/ s = get_all_records(table)

=============================================================================
